---- MODULE Spec2Model ----
(***************************************************************************)
(* Room-allocation decision engine: Store (SQLite repository), Allocator   *)
(* (CP-SAT assignment model), Simulator and the operator Workflow.         *)
(*                                                                         *)
(* Units.  Probabilities and priority weights are written in tenths        *)
(* (9 is 0.9), stakeholder caps in hundredths (75 is 0.75).  A score is    *)
(* kept as its integer objective coefficient; the float the code returns   *)
(* is coefficient / objective_scale.                                       *)
(***************************************************************************)
EXTENDS Integers, Sequences, FiniteSets, TLC

VARIABLES settings, requests, predictions, allocation_logs, forecast_logs,
          model, draft, last, threads, history, call, predictor

vars == <<settings, requests, predictions, allocation_logs, forecast_logs,
          model, draft, last, threads, history, call, predictor>>

\* What the sequential operations leave alone: the request threads inside the
\* Workflow, the record of stashed and approved drafts, the last call of
\* a pure function, and the Predictor's fields other than the model itself.
aux == <<threads, history, call, predictor>>

store == <<requests, predictions, allocation_logs, forecast_logs>>

(***************************************************************************)
(* Bounds of the model.                                                    *)
(***************************************************************************)
MaxRequests == 2
MaxPredictions == 2
MaxAllocationLogs == 2
MaxForecastLogs == 2

\* Python's None: for an optional number, for the window of an operation
\* without one, and for the Predictor's missing estimator.
NoneV == 0 - 1
NoWindow == <<0, 0>>
NoModel == "None"

(***************************************************************************)
(* Input domains.                                                          *)
(***************************************************************************)
RoomCapacity == <<30, 50>>
RoomIds == 1..Len(RoomCapacity)
\* A window is <<date, slot>>.  Requests exist for an earlier and for the
\* target window; predictions are saved and the Allocator is run for the
\* target window.
TargetWindows == {<<2, 2>>}
\* <<requested_capacity, priority_weight, stakeholder_id, window>>
RequestInputs ==
    {<<20, 10, "dept_a", <<2, 2>>>>, <<40, 15, "dept_b", <<2, 2>>>>,
     <<20, 10, "dept_b", <<1, 1>>>>}
IdleProbabilities == {5, 9}
ThresholdInputs == {NoneV, 9}
CapInputs == {NoneV, 50, 100}
FlowCapInputs == {50, 100}
ObjectiveScales == {10}
SolverStatuses == {"OPTIMAL", "FEASIBLE", "UNKNOWN"}
\* The repository write of persist_results that raises (0: none does).
FailurePoints == 0..3
FlowFailurePoints == {0, 2}

(***************************************************************************)
(* Python's round(): round half to even, on the exact rational n / d.      *)
(***************************************************************************)
round(n, d) ==
    LET q == n \div d
        r == n % d
    IN  IF 2 * r < d THEN q
        ELSE IF 2 * r > d THEN q + 1
        ELSE IF q % 2 = 0 THEN q ELSE q + 1

Max(a, b) == IF a >= b THEN a ELSE b

RECURSIVE SumOver(_, _)
SumOver(S, f) ==
    IF S = {} THEN 0
    ELSE LET e == CHOOSE x \in S : TRUE IN f[e] + SumOver(S \ {e}, f)

Range(s) == {s[i] : i \in DOMAIN s}

(***************************************************************************)
(* Repository reads.                                                       *)
(***************************************************************************)
list_rooms_for_allocation == RoomIds

\* Every request of the window, whatever its status.
list_requests_of_window(reqs, window) ==
    {q \in DOMAIN reqs : reqs[q].window = window}

list_pending_requests(reqs, window) ==
    {q \in DOMAIN reqs : reqs[q].window = window /\ reqs[q].status = "PENDING"}

list_all_pending_requests(reqs) ==
    {q \in DOMAIN reqs : reqs[q].status = "PENDING"}

\* The prediction of the first saved row of each room for the window.
list_first_idle_predictions(preds, window) ==
    LET rowsOf(r) == {i \in DOMAIN preds :
                         preds[i].room_id = r /\ preds[i].window = window}
        first(r) == CHOOSE i \in rowsOf(r) : \A j \in rowsOf(r) : i <= j
    IN  [r \in {x \in RoomIds : rowsOf(x) # {}} |-> preds[first(r)].idle_probability]

\* Latest prediction per room for the window: the row with MAX(id).
list_idle_predictions(preds, window) ==
    LET rowsOf(r) == {i \in DOMAIN preds :
                         preds[i].room_id = r /\ preds[i].window = window}
        latest(r) == CHOOSE i \in rowsOf(r) : \A j \in rowsOf(r) : j <= i
    IN  [r \in {x \in RoomIds : rowsOf(x) # {}} |-> preds[latest(r)].idle_probability]

\* Requests of strictly earlier dates, counted by slot (any status).
get_historical_request_counts_by_time_slot(reqs, window) ==
    LET earlier == {i \in DOMAIN reqs : reqs[i].window[1] < window[1]}
        slots == {reqs[i].window[2] : i \in earlier}
    IN  [s \in slots |-> Cardinality({i \in earlier : reqs[i].window[2] = s})]

(***************************************************************************)
(* Allocator: configuration, demand forecast, CP-SAT model and solve.      *)
(***************************************************************************)
AllocationConfig(thr, cap) ==
    [idle_probability_threshold |->
        IF thr # NoneV THEN thr ELSE settings.allocation_idle_probability_threshold,
     stakeholder_usage_cap |->
        IF cap # NoneV THEN cap ELSE settings.allocation_stakeholder_usage_cap,
     objective_scale |-> settings.allocation_objective_scale]

\* One forecast row per slot of the historical counts or of the current
\* requests, in slot order.
forecast_demand(reqs, pending, historical) ==
    LET all_slots == DOMAIN historical \cup {reqs[q].window[2] : q \in pending}
        ordered == [k \in 1..2 |-> k]
        present == SelectSeq(ordered, LAMBDA s : s \in all_slots)
    IN  [k \in DOMAIN present |->
            [time_slot |-> present[k],
             historical_count |->
                IF present[k] \in DOMAIN historical THEN historical[present[k]] ELSE 0]]

idle_probability_of(prediction_by_room, room) ==
    IF room \in DOMAIN prediction_by_room THEN prediction_by_room[room] ELSE 0

\* Pruning: the (room, request) pairs that get a decision variable.
RoomAdmittedAtThreshold(idle_probability, config) ==
    ~(idle_probability < config.idle_probability_threshold)

RoomAdmitted(idle_probability, config) ==
    ~(idle_probability <= config.idle_probability_threshold)

PairAdmitted(room_capacity, requested_capacity) ==
    ~(room_capacity < requested_capacity)

build_variables(reqs, pending, prediction_by_room, config) ==
    {<<r, q>> \in RoomIds \X pending :
        /\ RoomAdmitted(idle_probability_of(prediction_by_room, r), config)
        /\ PairAdmitted(RoomCapacity[r], reqs[q].requested_capacity)}

objective_coefficient(idle_probability, priority_weight, config) ==
    Max(0, round(idle_probability * priority_weight * config.objective_scale, 100))

cap_scaled(config) ==
    round(config.stakeholder_usage_cap * config.objective_scale, 100)

RequestConstraintDropped(x, pending) == TRUE

RequestConstraint(x, pending) ==
    \A q \in pending : Cardinality({p \in x : p[2] = q}) <= 1

RoomConstraint(x) ==
    \A r \in RoomIds : Cardinality({p \in x : p[1] = r}) <= 1

StakeholderCapDropped(x, variables, reqs, config) == TRUE

StakeholderCapConstraint(x, variables, reqs, config) ==
    \A s \in {reqs[p[2]].stakeholder_id : p \in variables} :
        Cardinality({p \in x : reqs[p[2]].stakeholder_id = s}) * config.objective_scale
            <= cap_scaled(config) * Cardinality(x)

\* The number of chosen pairs, in place of their weighted sum.
ObjectiveAsCount(x, reqs, prediction_by_room, config) == Cardinality(x)

Objective(x, reqs, prediction_by_room, config) ==
    SumOver(x, [p \in x |->
        objective_coefficient(idle_probability_of(prediction_by_room, p[1]),
                              reqs[p[2]].priority_weight, config)])

\* The assignments that satisfy every constraint of the built model.
FeasibleAssignments(reqs, pending, prediction_by_room, config) ==
    LET variables == build_variables(reqs, pending, prediction_by_room, config)
    IN  {x \in SUBSET variables :
            /\ RequestConstraint(x, pending)
            /\ RoomConstraint(x)
            /\ StakeholderCapConstraint(x, variables, reqs, config)}

\* What CpSolver.Solve may hand back for a status: an optimal assignment, any
\* feasible assignment (time limit hit), or no assignment at all.
SolverOutcomes(status, reqs, pending, prediction_by_room, config) ==
    LET feasible == FeasibleAssignments(reqs, pending, prediction_by_room, config)
        value(x) == Objective(x, reqs, prediction_by_room, config)
    IN  IF status = "OPTIMAL"
        THEN {x \in feasible : \A y \in feasible : value(y) <= value(x)}
        ELSE IF status = "FEASIBLE" THEN feasible
        ELSE {{}}

EmptyResult(unassigned) ==
    [allocations |-> <<>>, objective_value |-> 0,
     unassigned_request_ids |-> unassigned]

\* Pairs in dict insertion order: rooms ascending, requests ascending.
PairOrder(n) ==
    [k \in 1..(Len(RoomCapacity) * n) |-> <<((k - 1) \div n) + 1, ((k - 1) % n) + 1>>]

IdsInOrder(ids, n) == SelectSeq([k \in 1..n |-> k], LAMBDA q : q \in ids)

solve_model_forgets_unassigned(status, x, reqs, pending, prediction_by_room, config) ==
    IF pending = {} \/ status \notin {"OPTIMAL", "FEASIBLE"}
    THEN EmptyResult(<<>>)
    ELSE LET chosen == SelectSeq(PairOrder(Len(reqs)), LAMBDA p : p \in x)
             allocations ==
                [k \in DOMAIN chosen |->
                    [request_id |-> chosen[k][2],
                     room_id |-> chosen[k][1],
                     score |-> objective_coefficient(
                                  idle_probability_of(prediction_by_room, chosen[k][1]),
                                  reqs[chosen[k][2]].priority_weight, config),
                     stakeholder_id |-> reqs[chosen[k][2]].stakeholder_id]]
         IN  [allocations |-> allocations,
              objective_value |-> Objective(x, reqs, prediction_by_room, config),
              unassigned_request_ids |->
                 IdsInOrder(pending \ {chosen[k][2] : k \in DOMAIN chosen}, Len(reqs))]

solve_model(status, x, reqs, pending, prediction_by_room, config) ==
    IF pending = {} THEN EmptyResult(<<>>)
    ELSE IF status \notin {"OPTIMAL", "FEASIBLE"}
    THEN EmptyResult(IdsInOrder(pending, Len(reqs)))
    ELSE LET chosen == SelectSeq(PairOrder(Len(reqs)), LAMBDA p : p \in x)
             allocations ==
                [k \in DOMAIN chosen |->
                    [request_id |-> chosen[k][2],
                     room_id |-> chosen[k][1],
                     score |-> objective_coefficient(
                                  idle_probability_of(prediction_by_room, chosen[k][1]),
                                  reqs[chosen[k][2]].priority_weight, config),
                     stakeholder_id |-> reqs[chosen[k][2]].stakeholder_id]]
             allocated_ids == {allocations[k].request_id : k \in DOMAIN allocations}
         IN  [allocations |-> allocations,
              objective_value |-> Objective(x, reqs, prediction_by_room, config),
              unassigned_request_ids |->
                 IdsInOrder(pending \ allocated_ids, Len(reqs))]

\* Jain's index over the per-stakeholder allocation counts, as an exact
\* fraction <<numerator, denominator>>.
Zero == <<0, 1>>

compute_fairness_metric_over_allocated(reqs, allocations) ==
    IF allocations = <<>> THEN Zero
    ELSE LET allocated_counts(s) == Cardinality({k \in DOMAIN allocations : allocations[k] = s})
             stakeholders == Range(reqs) \cap Range(allocations)
             values == [s \in stakeholders |-> allocated_counts(s)]
             total == SumOver(stakeholders, values)
             squares == SumOver(stakeholders, [s \in stakeholders |-> values[s] * values[s]])
         IN  IF stakeholders = {} THEN Zero
             ELSE IF Cardinality(stakeholders) * squares = 0 THEN Zero
             ELSE <<total * total, Cardinality(stakeholders) * squares>>

compute_fairness_metric(reqs, allocations) ==
    IF allocations = <<>> THEN Zero
    ELSE LET allocated_counts(s) == Cardinality({k \in DOMAIN allocations : allocations[k] = s})
             stakeholders == Range(reqs)
             values == [s \in stakeholders |-> allocated_counts(s)]
             numerator == SumOver(stakeholders, values) * SumOver(stakeholders, values)
             denominator ==
                Cardinality(stakeholders)
                    * SumOver(stakeholders, [s \in stakeholders |-> values[s] * values[s]])
         IN  IF stakeholders = {} THEN Zero
             ELSE IF denominator = 0 THEN Zero
             ELSE <<numerator, denominator>>

(***************************************************************************)
(* Predictor.  The booking history is seeded once, so a finished training  *)
(* always installs the same estimator; TrainedIdleProbability is what it   *)
(* answers for a room and window.                                          *)
(***************************************************************************)
TrainedIdleProbability(room, window) ==
    IF (room + window[1]) % 2 = 0 THEN 9 ELSE 5

save_prediction(preds, room, window, idle_probability) ==
    Append(preds, [room_id |-> room, window |-> window,
                   idle_probability |-> idle_probability])

\* AvailabilityPredictionService.predict for the rooms of one call, in order;
\* the table is untouched unless persist is set.
RECURSIVE predict(_, _, _, _)
predict(preds, rooms, window, persist) ==
    IF rooms = <<>> \/ ~persist THEN preds
    ELSE predict(save_prediction(preds, Head(rooms), window,
                                 TrainedIdleProbability(Head(rooms), window)),
                 Tail(rooms), window, persist)

RoomsInOrder(rooms) == SelectSeq([k \in 1..Len(RoomCapacity) |-> k], LAMBDA r : r \in rooms)

missing_room_ids(preds, window) ==
    RoomsInOrder(RoomIds \ DOMAIN list_idle_predictions(preds, window))

(***************************************************************************)
(* Allocator persistence: three repository writes, each with its own       *)
(* connection and commit.  fail_at names the write that raises (0: none).  *)
(***************************************************************************)
save_forecast_output(logs, window, forecasts) ==
    logs \o [k \in DOMAIN forecasts |->
                [forecast_date |-> window[1],
                 time_slot |-> forecasts[k].time_slot,
                 historical_count |-> forecasts[k].historical_count]]

save_first_allocation_log(logs, allocations) ==
    IF allocations = <<>> THEN logs
    ELSE Append(logs, [request_id |-> allocations[1].request_id,
                       room_id |-> allocations[1].room_id,
                       allocation_score |-> allocations[1].score])

save_allocation_logs(logs, allocations) ==
    logs \o [k \in DOMAIN allocations |->
                [request_id |-> allocations[k].request_id,
                 room_id |-> allocations[k].room_id,
                 allocation_score |-> allocations[k].score]]

mark_all_requests_allocated(reqs, request_ids) ==
    [q \in DOMAIN reqs |->
        IF request_ids # <<>>
        THEN [reqs[q] EXCEPT !.status = "ALLOCATED"]
        ELSE reqs[q]]

mark_requests_allocated(reqs, request_ids) ==
    [q \in DOMAIN reqs |->
        IF q \in Range(request_ids)
        THEN [reqs[q] EXCEPT !.status = "ALLOCATED"]
        ELSE reqs[q]]

\* The writes that commit before the failure point, in the code's order.
CommittedWrites(fail_at) ==
    IF fail_at = 0 THEN {1, 2, 3} ELSE {w \in {1, 2, 3} : w < fail_at}

persist_results(fail_at, window, forecasts, result) ==
    LET done == CommittedWrites(fail_at)
    IN  [forecast_logs |->
            IF 1 \in done
            THEN save_forecast_output(forecast_logs, window, forecasts)
            ELSE forecast_logs,
         allocation_logs |->
            IF 2 \in done
            THEN save_allocation_logs(allocation_logs, result.allocations)
            ELSE allocation_logs,
         requests |->
            IF 3 \in done
            THEN mark_requests_allocated(requests,
                    [k \in DOMAIN result.allocations |-> result.allocations[k].request_id])
            ELSE requests]

\* A write can raise only if it opens a connection (non-empty input).
CanFailAt(fail_at, forecasts, result) ==
    \/ fail_at = 0
    \/ fail_at = 1 /\ forecasts # <<>>
    \/ fail_at \in {2, 3} /\ result.allocations # <<>>

(***************************************************************************)
(* State machine.                                                          *)
(***************************************************************************)
NoResult == EmptyResult(<<>>)

\* The last operation: its name, how it ended, its arguments, the solver
\* status of its solve, what it returned (result; rows is the allocations
\* list of a preview payload) and, for approve, the operation before it.
Last(op, outcome, window, thr, cap, persist_outputs, status, result, rows, previous) ==
    [op |-> op, outcome |-> outcome, window |-> window,
     idle_probability_threshold |-> thr, stakeholder_usage_cap |-> cap,
     persist_outputs |-> persist_outputs, status |-> status,
     result |-> result, rows |-> rows, previous |-> previous]

Plain(op, outcome) ==
    Last(op, outcome, NoWindow, NoneV, NoneV, FALSE, "-", NoResult, <<>>, "-")

\* Request threads of the server: each is idle or between two steps of a
\* Workflow call, holding that call's local variables.
Threads == {1, 2}

IdleThread == [pc |-> "idle", draft |-> <<>>, epoch |-> 0]

\* stashed counts the drafts stashed so far (the current draft's epoch);
\* approved holds the epochs an approve has persisted, repeated those it
\* persisted more than once.
NoHistory == [stashed |-> 0, approved |-> {}, repeated |-> {}]

NoCall == [fn |-> "-"]

\* AvailabilityPredictionService.__init__: the fields beside _model.  pipeline
\* identifies the fitted pipeline _model refers to (0: none), trained_at is
\* the training that stamped it, lock the thread holding _model_lock (0:
\* free) and trainings counts the train_model calls; stored_metadata is the
\* ModelMetadata row of the store.  NoMetadata stands for None.
NoMetadata == [model_type |-> "-", trained_at |-> 0, training_rows |-> 0]

NewPredictor ==
    [pipeline |-> 0, trained_at |-> 0, training_rows |-> 0,
     model_metadata |-> NoMetadata, stored_metadata |-> NoMetadata,
     lock |-> 0, trainings |-> 0]

Init ==
    /\ settings \in [allocation_idle_probability_threshold : {5},
                     allocation_stakeholder_usage_cap : {75},
                     allocation_objective_scale : ObjectiveScales]
    /\ requests = <<>>
    /\ predictions = <<>>
    /\ allocation_logs = <<>>
    /\ forecast_logs = <<>>
    /\ model = NoModel
    /\ draft = <<>>
    /\ last = Plain("init", "ok")
    /\ threads = [t \in Threads |-> IdleThread]
    /\ history = NoHistory
    /\ call = NoCall
    /\ predictor = NewPredictor

\* A request stored as already allocated.
create_request_allocated(input) ==
    /\ Len(requests) < MaxRequests
    /\ requests' = Append(requests,
            [requested_capacity |-> input[1], window |-> input[4],
             priority_weight |-> input[2], stakeholder_id |-> input[3],
             status |-> "ALLOCATED"])
    /\ last' = Plain("create_request", "ok")
    /\ UNCHANGED <<settings, predictions, allocation_logs, forecast_logs, model, draft, aux>>

\* DataRepository.create_request
create_request(input) ==
    /\ Len(requests) < MaxRequests
    /\ requests' = Append(requests,
            [requested_capacity |-> input[1], window |-> input[4],
             priority_weight |-> input[2], stakeholder_id |-> input[3],
             status |-> "PENDING"])
    /\ last' = Plain("create_request", "ok")
    /\ UNCHANGED <<settings, predictions, allocation_logs, forecast_logs, model, draft, aux>>

\* DataRepository.save_prediction called directly (seeding of predictions)
SavePrediction(room, window, idle_probability) ==
    /\ Len(predictions) < MaxPredictions
    /\ predictions' = save_prediction(predictions, room, window, idle_probability)
    /\ last' = Plain("save_prediction", "ok")
    /\ UNCHANGED <<settings, requests, allocation_logs, forecast_logs, model, draft, aux>>

\* AvailabilityPredictionService.train_model
train_model ==
    /\ model' = "trained"
    /\ last' = Plain("train_model", "ok")
    /\ UNCHANGED <<settings, requests, predictions, allocation_logs, forecast_logs, draft, aux>>

\* DashboardWorkflowService.predict_idle_probabilities for all rooms
predict_idle_probabilities(window) ==
    /\ IF model = NoModel
       THEN /\ predictions' = predictions
            /\ last' = Plain("predict", "ModelNotReadyError")
       ELSE /\ Len(predictions) + Len(RoomCapacity) <= MaxPredictions
            /\ predictions' = predict(predictions, RoomsInOrder(RoomIds), window, TRUE)
            /\ last' = Plain("predict", "ok")
    /\ UNCHANGED <<settings, requests, allocation_logs, forecast_logs, model, draft, aux>>

\* Predictions the Allocator generates (and saves) for rooms that have none
\* for the window, when a trained predictor is attached.
ensure_predictions(preds, window) ==
    IF model = NoModel THEN preds
    ELSE predict(preds, missing_room_ids(preds, window), window, TRUE)

\* Whether the outputs of a run are written to the store.
PersistsOutputs(persist_outputs) == persist_outputs

\* AllocationOptimizationService.optimize_allocation: one run of the Allocator.
\* op names the caller; the solver's status and answer and the failing write
\* are the run's environment.
AllocatorRun(op, window, thr, cap, persist_outputs, status, fail_at) ==
    LET config == AllocationConfig(thr, cap)
        pending == list_pending_requests(requests, window)
        preds == ensure_predictions(predictions, window)
        prediction_by_room == list_idle_predictions(preds, window)
        historical == get_historical_request_counts_by_time_slot(requests, window)
        forecasts == forecast_demand(requests, pending, historical)
    IN  /\ Len(preds) <= MaxPredictions
        /\ PersistsOutputs(persist_outputs) \/ fail_at = 0
        /\ predictions' = preds
        /\ \E x \in SolverOutcomes(status, requests, pending, prediction_by_room, config) :
             LET result ==
                    IF list_rooms_for_allocation = {} \/ pending = {}
                    THEN EmptyResult(IdsInOrder(pending, Len(requests)))
                    ELSE solve_model(status, x, requests, pending, prediction_by_room, config)
                 written == persist_results(fail_at, window, forecasts, result)
                 rows == [k \in DOMAIN result.allocations |->
                            [room_id |-> result.allocations[k].room_id,
                             stakeholder |-> result.allocations[k].stakeholder_id,
                             constraint_status |-> "SATISFIED"]]
                         \o
                         [k \in DOMAIN result.unassigned_request_ids |->
                            [room_id |-> NoneV,
                             stakeholder |->
                                requests[result.unassigned_request_ids[k]].stakeholder_id,
                             constraint_status |-> "UNASSIGNED"]]
             IN  IF PersistsOutputs(persist_outputs)
                 THEN /\ CanFailAt(fail_at, forecasts, result)
                      /\ Len(written.allocation_logs) <= MaxAllocationLogs
                      /\ Len(written.forecast_logs) <= MaxForecastLogs
                      /\ requests' = written.requests
                      /\ allocation_logs' = written.allocation_logs
                      /\ forecast_logs' = written.forecast_logs
                      /\ last' = Last(op, IF fail_at = 0 THEN "ok" ELSE "StorageError",
                                      window, thr, cap, persist_outputs,
                                      IF fail_at = 0 THEN status ELSE "-",
                                      IF fail_at = 0 THEN result ELSE NoResult, <<>>,
                                      IF op = "approve" /\ last.op = "preview"
                                      THEN "preview" ELSE "-")
                 ELSE /\ fail_at = 0
                      /\ UNCHANGED <<requests, allocation_logs, forecast_logs>>
                      /\ last' = Last(op, "ok", window, thr, cap, persist_outputs, status,
                                      result, IF op = "preview" THEN rows ELSE <<>>, "-")

\* POST /optimize_allocation and programmatic callers: outputs are persisted
optimize_allocation(window, thr, cap, status, fail_at) ==
    /\ AllocatorRun("optimize", window, thr, cap, TRUE, status, fail_at)
    /\ UNCHANGED <<settings, model, draft, aux>>

\* The persist_outputs argument preview_allocation passes to the Allocator.
preview_persists == TRUE

preview_persist_outputs == FALSE

\* DashboardWorkflowService.preview_allocation
preview_allocation(window, thr, cap, status) ==
    /\ AllocatorRun("preview", window, thr, cap, preview_persist_outputs, status, 0)
    /\ draft' = <<[window |-> window, idle_probability_threshold |-> thr,
                  stakeholder_usage_cap |-> cap]>>
    /\ UNCHANGED <<settings, model, aux>>

\* The draft slot when the Allocator run of approve has returned or raised.
draft_kept_after_approve(fail_at) == draft

draft_after_approve(fail_at) == IF fail_at = 0 THEN <<>> ELSE draft

\* The approved_allocations_count field of the approve payload.
approved_allocations_count(result) == Len(result.allocations)

\* An approve that runs the Allocator with the configured defaults.
approve_with_defaults(status, fail_at) ==
    IF draft = <<>>
    THEN /\ last' = Plain("approve", "AllocationDraftNotFoundError")
         /\ UNCHANGED <<settings, requests, predictions, allocation_logs, forecast_logs,
                        model, draft, aux>>
    ELSE /\ AllocatorRun("approve", draft[1].window, NoneV, NoneV, TRUE, status, fail_at)
         /\ draft' = draft_after_approve(fail_at)
         /\ UNCHANGED <<settings, model, aux>>

\* DashboardWorkflowService.approve_latest_allocation
approve_latest_allocation(status, fail_at) ==
    IF draft = <<>>
    THEN /\ last' = Plain("approve", "AllocationDraftNotFoundError")
         /\ UNCHANGED <<settings, requests, predictions, allocation_logs, forecast_logs,
                        model, draft, aux>>
    ELSE /\ AllocatorRun("approve", draft[1].window,
                         draft[1].idle_probability_threshold,
                         draft[1].stakeholder_usage_cap, TRUE, status, fail_at)
         /\ draft' = draft_after_approve(fail_at)
         /\ UNCHANGED <<settings, model, aux>>

(***************************************************************************)
(* Simulator.                                                              *)
(***************************************************************************)
EmptyMap == [k \in {} |-> 0]

ConstraintInputs ==
    {[idle_threshold |-> NoneV, stakeholder_cap |-> NoneV,
      capacity_override |-> EmptyMap, priority_adjustment |-> EmptyMap],
     [idle_threshold |-> 9, stakeholder_cap |-> 50,
      capacity_override |-> [k \in {1} |-> 45],
      priority_adjustment |-> [k \in {"dept_a"} |-> 12]],
     [idle_threshold |-> NoneV, stakeholder_cap |-> NoneV,
      capacity_override |-> [k \in {9} |-> 25], priority_adjustment |-> EmptyMap],
     [idle_threshold |-> 11, stakeholder_cap |-> NoneV,
      capacity_override |-> EmptyMap, priority_adjustment |-> EmptyMap]}

WindowsInOrder(ws) ==
    SelectSeq(<<(<<1, 1>>), (<<2, 2>>)>>, LAMBDA w : w \in ws)

pending_windows(reqs) ==
    WindowsInOrder({reqs[q].window : q \in list_all_pending_requests(reqs)})

\* SimulationService._predict_idle_probability asks the Predictor with this
\* persist flag.
simulation_persists == TRUE

simulation_persist == FALSE

\* The Predictions table after SimulationService._load_dataset has filled the
\* prediction gaps of every pending window.
RECURSIVE load_dataset(_, _)
load_dataset(preds, windows) ==
    IF windows = <<>> THEN preds
    ELSE load_dataset(
            IF model = NoModel THEN preds
            ELSE predict(preds, missing_room_ids(preds, Head(windows)), Head(windows),
                         simulation_persist),
            Tail(windows))

validate_constraints_any_room(constraints, reqs) ==
    IF constraints.idle_threshold # NoneV
       /\ ~(0 <= constraints.idle_threshold /\ constraints.idle_threshold <= 10)
    THEN "SimulationValidationError"
    ELSE IF constraints.stakeholder_cap # NoneV
            /\ ~(0 < constraints.stakeholder_cap /\ constraints.stakeholder_cap <= 100)
    THEN "SimulationValidationError"
    ELSE IF \E room_id \in DOMAIN constraints.capacity_override :
                constraints.capacity_override[room_id] <= 0
    THEN "SimulationValidationError"
    ELSE IF \E s \in DOMAIN constraints.priority_adjustment :
                \/ s \notin {reqs[q].stakeholder_id : q \in list_all_pending_requests(reqs)}
                \/ constraints.priority_adjustment[s] <= 0
    THEN "SimulationValidationError"
    ELSE "ok"

validate_temporary_constraints(constraints, reqs) ==
    IF constraints.idle_threshold # NoneV
       /\ ~(0 <= constraints.idle_threshold /\ constraints.idle_threshold <= 10)
    THEN "SimulationValidationError"
    ELSE IF constraints.stakeholder_cap # NoneV
            /\ ~(0 < constraints.stakeholder_cap /\ constraints.stakeholder_cap <= 100)
    THEN "SimulationValidationError"
    ELSE IF \E room_id \in DOMAIN constraints.capacity_override :
                room_id \notin RoomIds \/ constraints.capacity_override[room_id] <= 0
    THEN "SimulationValidationError"
    ELSE IF \E s \in DOMAIN constraints.priority_adjustment :
                \/ s \notin {reqs[q].stakeholder_id : q \in list_all_pending_requests(reqs)}
                \/ constraints.priority_adjustment[s] <= 0
    THEN "SimulationValidationError"
    ELSE "ok"

\* settings.prediction_default_occupancy_probability is 0.5
fallback_idle_probability == 10 - 5

\* ScenarioDataset as _load_dataset builds it in memory: the rooms, the
\* pending requests, and for every pending window one prediction per room
\* (the latest saved one, else the Predictor's answer, else the fallback).
dataset_predictions(preds, window) ==
    LET listed == list_idle_predictions(preds, window)
    IN  [r \in RoomIds |->
            IF r \in DOMAIN listed THEN listed[r]
            ELSE IF model # NoModel THEN TrainedIdleProbability(r, window)
            ELSE fallback_idle_probability]

ScenarioDataset(reqs, preds) ==
    [rooms |-> RoomCapacity,
     requests |-> [q \in list_all_pending_requests(reqs) |-> reqs[q]],
     predictions_by_slot |->
        [w \in {reqs[q].window : q \in list_all_pending_requests(reqs)} |->
            dataset_predictions(preds, w)]]

\* The overrides written into the caller's dataset.
apply_constraints_in_place(dataset, constraints) ==
    LET mutated ==
           [dataset EXCEPT
              !.rooms = [r \in DOMAIN dataset.rooms |->
                            IF r \in DOMAIN constraints.capacity_override
                            THEN constraints.capacity_override[r]
                            ELSE dataset.rooms[r]],
              !.requests = [q \in DOMAIN dataset.requests |->
                  IF dataset.requests[q].stakeholder_id
                        \in DOMAIN constraints.priority_adjustment
                  THEN [dataset.requests[q] EXCEPT !.priority_weight =
                          (@ * constraints.priority_adjustment[
                                  dataset.requests[q].stakeholder_id]) \div 10]
                  ELSE dataset.requests[q]]]
    IN  [dataset |-> mutated,
         mutated_dataset |-> mutated,
         config |-> AllocationConfig(constraints.idle_threshold,
                                     constraints.stakeholder_cap)]

\* apply_temporary_constraints after its validation: the caller's dataset as
\* the call leaves it, the deep copy with the overrides (dataclasses.replace
\* builds new rooms and requests), and the scenario configuration.
apply_temporary_constraints(dataset, constraints) ==
    LET mutated ==
           [dataset EXCEPT
              !.rooms = [r \in DOMAIN dataset.rooms |->
                            IF r \in DOMAIN constraints.capacity_override
                            THEN constraints.capacity_override[r]
                            ELSE dataset.rooms[r]],
              !.requests = [q \in DOMAIN dataset.requests |->
                  IF dataset.requests[q].stakeholder_id
                        \in DOMAIN constraints.priority_adjustment
                  THEN [dataset.requests[q] EXCEPT !.priority_weight =
                          (@ * constraints.priority_adjustment[
                                  dataset.requests[q].stakeholder_id]) \div 10]
                  ELSE dataset.requests[q]]]
    IN  [dataset |-> dataset,
         mutated_dataset |-> mutated,
         config |-> AllocationConfig(constraints.idle_threshold,
                                     constraints.stakeholder_cap)]

RECURSIVE SeqOf(_, _)
SeqOf(S, f) ==
    IF S = {} THEN <<>>
    ELSE LET e == CHOOSE x \in S : TRUE IN <<f[e]>> \o SeqOf(S \ {e}, f)

\* compute_baseline: _optimize_dataset on the loaded dataset with the
\* configured defaults, one solve per pending window.  Each element is what
\* one choice of the solver's answers gives: the <<window, room, request>>
\* decisions and the objective value.
compute_baseline(reqs, dataset) ==
    LET config == AllocationConfig(NoneV, NoneV)
        windows == DOMAIN dataset.predictions_by_slot
        outcomes(w) ==
            SolverOutcomes("OPTIMAL", reqs, list_pending_requests(reqs, w),
                           dataset.predictions_by_slot[w], config)
        answers == {f \in [windows -> UNION {outcomes(w) : w \in windows}] :
                       \A w \in windows : f[w] \in outcomes(w)}
    IN  {[allocations |-> UNION {{<<w, p[1], p[2]>> : p \in f[w]} : w \in windows},
          objective_value |->
             SumOver(windows,
                     [w \in windows |->
                        Objective(f[w], reqs, dataset.predictions_by_slot[w], config)])] :
         f \in answers}

\* SimulationService.compute_metrics; rates and averages as <<numerator,
\* denominator>>, the fairness metric as compute_fairness_metric gives it.
compute_metrics(dataset, result) ==
    LET utilized == {t[2] : t \in result.allocations}
        idle == [t \in result.allocations |-> dataset.predictions_by_slot[t[1]][t[2]]]
    IN  [utilization_rate |-> <<Cardinality(utilized), Len(dataset.rooms)>>,
         requests_satisfied |-> Cardinality(result.allocations),
         objective_value |-> result.objective_value,
         total_rooms_utilized |-> Cardinality(utilized),
         average_idle_probability_utilized |->
            <<SumOver(result.allocations, idle), Cardinality(result.allocations)>>,
         fairness_metric |->
            compute_fairness_metric(
               SeqOf(DOMAIN dataset.requests,
                     [q \in DOMAIN dataset.requests |-> dataset.requests[q].stakeholder_id]),
               SeqOf(result.allocations,
                     [t \in result.allocations |-> dataset.requests[t[3]].stakeholder_id]))]

\* The rooms and requests of a dataset.
RoomsAndRequests(dataset) == [rooms |-> dataset.rooms, requests |-> dataset.requests]

NoDataset == [rooms |-> <<>>, requests |-> EmptyMap]

\* The steps run_simulation goes through, in order, up to its return or to
\* the SimulationValidationError raised by apply_temporary_constraints.
simulation_steps(outcome) ==
    <<"load_dataset", "compute_baseline", "validate_temporary_constraints">>
    \o (IF outcome = "ok"
        THEN <<"deepcopy_dataset", "optimize_scenario", "compute_metrics">>
        ELSE <<>>)

\* SimulationService.run_simulation
run_simulation(constraints) ==
    /\ predictions' = load_dataset(predictions, pending_windows(requests))
    /\ Len(predictions') <= MaxPredictions
    /\ last' = Last("simulate", validate_temporary_constraints(constraints, requests),
                    NoWindow, constraints.idle_threshold, constraints.stakeholder_cap,
                    FALSE, "-", NoResult, <<>>, "-")
    /\ \E baseline_result \in compute_baseline(requests, ScenarioDataset(requests, predictions)) :
          LET loaded == ScenarioDataset(requests, predictions)
              outcome == validate_temporary_constraints(constraints, requests)
              applied == apply_temporary_constraints(loaded, constraints)
          IN  call' = [fn |-> "run_simulation", constraints |-> constraints,
                       steps |-> simulation_steps(outcome),
                       baseline |-> compute_metrics(loaded, baseline_result),
                       dataset |-> RoomsAndRequests(IF outcome = "ok" THEN applied.dataset
                                                    ELSE loaded),
                       constrained_dataset |->
                          IF outcome = "ok" THEN RoomsAndRequests(applied.mutated_dataset)
                          ELSE NoDataset]
    /\ UNCHANGED <<settings, requests, allocation_logs, forecast_logs, model, predictor, draft,
                   threads, history>>

Next ==
    \/ \E input \in RequestInputs : create_request(input)
    \/ \E room \in RoomIds, window \in TargetWindows, p \in IdleProbabilities :
          SavePrediction(room, window, p)
    \/ \E window \in TargetWindows, thr \in ThresholdInputs, cap \in CapInputs,
          status \in SolverStatuses :
          optimize_allocation(window, thr, cap, status, 0)

Spec == Init /\ [][Next]_vars

\* Allocator runs whose persistence may be cut short by a storage error.
NextFail ==
    \/ \E input \in RequestInputs : create_request(input)
    \/ \E room \in RoomIds, window \in TargetWindows : SavePrediction(room, window, 9)
    \/ \E window \in TargetWindows, cap \in FlowCapInputs, fail_at \in FailurePoints :
          optimize_allocation(window, NoneV, cap, "OPTIMAL", fail_at)

SpecFail == Init /\ [][NextFail]_vars

\* The operator workflow on a store with a trained or untrained Predictor.
NextFlow ==
    \/ \E input \in RequestInputs : create_request(input)
    \/ \E room \in RoomIds, window \in TargetWindows : SavePrediction(room, window, 9)
    \/ train_model
    \/ \E window \in TargetWindows, cap \in FlowCapInputs, status \in SolverStatuses :
          preview_allocation(window, NoneV, cap, status)
    \/ \E status \in SolverStatuses, fail_at \in FlowFailurePoints :
          approve_latest_allocation(status, fail_at)

SpecFlow == Init /\ [][NextFlow]_vars

\* Simulation runs against stores that requests, predictions, training and
\* persisted allocations have shaped.
NextSim ==
    \/ \E input \in RequestInputs : create_request(input)
    \/ \E room \in RoomIds, window \in TargetWindows : SavePrediction(room, window, 9)
    \/ train_model
    \/ \E window \in TargetWindows : predict_idle_probabilities(window)
    \/ \E window \in TargetWindows : optimize_allocation(window, NoneV, 100, "OPTIMAL", 0)
    \/ \E constraints \in ConstraintInputs : run_simulation(constraints)

SpecSim == Init /\ [][NextSim]_vars

(***************************************************************************)
(* Workflow calls on concurrent request threads.  The workflow lock is     *)
(* held for the read, the stash and the clear of the draft slot only; the  *)
(* Allocator runs of preview and approve execute outside it.               *)
(***************************************************************************)
MaxPreviews == 2

\* preview_allocation up to the Allocator's return: the run, then the call's
\* arguments wait in the thread for the stash.
PreviewRun(t, window, thr, cap, status) ==
    /\ threads[t].pc = "idle"
    /\ history.stashed < MaxPreviews
    /\ AllocatorRun("preview", window, thr, cap, preview_persist_outputs, status, 0)
    /\ threads' = [threads EXCEPT ![t] =
          [pc |-> "preview_stash",
           draft |-> <<[window |-> window, idle_probability_threshold |-> thr,
                        stakeholder_usage_cap |-> cap]>>,
           epoch |-> 0]]
    /\ UNCHANGED <<settings, model, predictor, draft, history, call>>

\* preview_allocation: with self._lock, the draft slot takes the new draft
PreviewStash(t) ==
    /\ threads[t].pc = "preview_stash"
    /\ draft' = threads[t].draft
    /\ history' = [history EXCEPT !.stashed = @ + 1]
    /\ threads' = [threads EXCEPT ![t] = IdleThread]
    /\ last' = Plain("preview_stash", "ok")
    /\ UNCHANGED <<settings, requests, predictions, allocation_logs, forecast_logs,
                   model, predictor, call>>

\* approve_latest_allocation: with self._lock, the draft slot is copied
ApproveRead(t) ==
    /\ threads[t].pc = "idle"
    /\ threads' = [threads EXCEPT ![t] =
          [pc |-> "approve_run", draft |-> draft,
           epoch |-> IF draft = <<>> THEN 0 ELSE history.stashed]]
    /\ last' = Plain("approve_read", "ok")
    /\ UNCHANGED <<settings, requests, predictions, allocation_logs, forecast_logs,
                   model, predictor, draft, history, call>>

\* approve_latest_allocation outside the lock: raise for a missing draft, or
\* run the Allocator with persist_outputs = True on the copied draft
ApproveRun(t, status) ==
    /\ threads[t].pc = "approve_run"
    /\ IF threads[t].draft = <<>>
       THEN /\ last' = Plain("approve", "AllocationDraftNotFoundError")
            /\ threads' = [threads EXCEPT ![t] = IdleThread]
            /\ UNCHANGED <<requests, predictions, allocation_logs, forecast_logs, history>>
       ELSE /\ AllocatorRun("approve", threads[t].draft[1].window,
                            threads[t].draft[1].idle_probability_threshold,
                            threads[t].draft[1].stakeholder_usage_cap, TRUE, status, 0)
            /\ threads' = [threads EXCEPT ![t].pc = "approve_clear"]
            /\ history' = [history EXCEPT
                  !.approved = @ \cup {threads[t].epoch},
                  !.repeated = IF threads[t].epoch \in history.approved
                               THEN @ \cup {threads[t].epoch} ELSE @]
    /\ UNCHANGED <<settings, model, predictor, draft, call>>

\* approve_latest_allocation: with self._lock, the draft slot is cleared
ApproveClear(t) ==
    /\ threads[t].pc = "approve_clear"
    /\ draft' = <<>>
    /\ threads' = [threads EXCEPT ![t] = IdleThread]
    /\ last' = Plain("approve_clear", "ok")
    /\ UNCHANGED <<settings, requests, predictions, allocation_logs, forecast_logs,
                   model, predictor, history, call>>

\* The requests the concurrent runs compete for: those of the target window.
FlowRequestInputs == {input \in RequestInputs : input[4] \in TargetWindows}

NextConc ==
    \/ \E input \in FlowRequestInputs : create_request(input)
    \/ \E window \in TargetWindows : SavePrediction(1, window, 9)
    \/ \E t \in Threads, window \in TargetWindows :
          PreviewRun(t, window, NoneV, 100, "OPTIMAL")
    \/ \E t \in Threads : PreviewStash(t)
    \/ \E t \in Threads : ApproveRead(t)
    \/ \E t \in Threads : ApproveRun(t, "OPTIMAL")
    \/ \E t \in Threads : ApproveClear(t)

SpecConc == Init /\ [][NextConc]_vars

(***************************************************************************)
(* optimize_allocation as called: argument validation and the solver       *)
(* dependency check come before any repository access.  A date text is     *)
(* <<year, month, day>> (<<>> for text that is no such triple), a slot     *)
(* text the sequence of its "-"-separated parts (NoneV for a part that is  *)
(* not all digits).                                                        *)
(***************************************************************************)
CallDates == {<<2026, 2, 24>>, <<2026, 2, 30>>, <<>>}
CallSlots == {<<11, 13>>, <<13, 11>>, <<11>>, <<NoneV, 13>>}
CallThresholds == {NoneV, 10, 11, 0 - 2}
CallCaps == {0, 100, 101}
CallRequestInputs == {<<20, 10, "dept_a", <<2, 2>>>>}

\* Solver settings of the Allocator's configuration.
SolverSettings ==
    [solver_max_time_seconds |-> 5, solver_random_seed |-> 42, cp_sat_workers |-> 1]

IsLeapYear(year) == year % 4 = 0 /\ (year % 100 # 0 \/ year % 400 = 0)

DaysInMonth(year, month) ==
    IF month = 2 THEN (IF IsLeapYear(year) THEN 29 ELSE 28)
    ELSE IF month \in {4, 6, 9, 11} THEN 30 ELSE 31

\* datetime.strptime(date_value, "%Y-%m-%d") succeeds
validate_date(date) ==
    IF /\ Len(date) = 3
       /\ date[1] \in 1..9999
       /\ date[2] \in 1..12
       /\ date[3] \in 1..DaysInMonth(date[1], date[2])
    THEN "ok" ELSE "AllocationValidationError"

validate_slot(slot) ==
    IF Len(slot) # 2 THEN "AllocationValidationError"
    ELSE IF \E k \in DOMAIN slot : slot[k] = NoneV THEN "AllocationValidationError"
    ELSE IF ~(0 <= slot[1] /\ slot[1] <= 23) \/ ~(0 <= slot[2] /\ slot[2] <= 23)
            \/ slot[1] >= slot[2]
    THEN "AllocationValidationError"
    ELSE "ok"

validate_allocation_config(config) ==
    IF ~(0 <= config.idle_probability_threshold /\ config.idle_probability_threshold <= 10)
    THEN "ValueError"
    ELSE IF ~(0 < config.stakeholder_usage_cap /\ config.stakeholder_usage_cap <= 100)
    THEN "ValueError"
    ELSE IF config.solver_max_time_seconds <= 0 THEN "ValueError"
    ELSE IF config.objective_scale <= 0 THEN "ValueError"
    ELSE IF config.cp_sat_workers <= 0 THEN "ValueError"
    ELSE "ok"

validate_inputs(date, slot, config) ==
    IF validate_date(date) # "ok" THEN validate_date(date)
    ELSE IF validate_slot(slot) # "ok" THEN validate_slot(slot)
    ELSE validate_allocation_config(config)

ensure_solver_dependency(cp_model) ==
    IF cp_model THEN "ok" ELSE "SolverDependencyError"

\* The store's key of a date and slot text: days after 2026-02-22 and the
\* two-hour slots from 09-11 on.
WindowKey(date, slot) == <<date[3] - 22, (slot[1] - 7) \div 2>>

\* AllocationOptimizationService.optimize_allocation, from its first line;
\* cp_model tells whether OR-Tools could be imported.
OptimizeCall(date, slot, thr, cap, cp_model, status) ==
    LET base == AllocationConfig(thr, cap)
        config == [idle_probability_threshold |-> base.idle_probability_threshold,
                   stakeholder_usage_cap |-> base.stakeholder_usage_cap,
                   objective_scale |-> base.objective_scale,
                   solver_max_time_seconds |-> SolverSettings.solver_max_time_seconds,
                   solver_random_seed |-> SolverSettings.solver_random_seed,
                   cp_sat_workers |-> SolverSettings.cp_sat_workers]
        validation == validate_inputs(date, slot, config)
        raised == IF validation # "ok" THEN validation
                  ELSE ensure_solver_dependency(cp_model)
    IN  /\ IF raised # "ok"
           THEN /\ last' = Last("optimize", raised, NoWindow, thr, cap, TRUE, "-",
                                NoResult, <<>>, "-")
                /\ UNCHANGED <<requests, predictions, allocation_logs, forecast_logs>>
           ELSE AllocatorRun("optimize", WindowKey(date, slot), thr, cap, TRUE, status, 0)
        /\ call' = [fn |-> "optimize_allocation", date |-> date, slot |-> slot,
                    cp_model |-> cp_model]
        /\ UNCHANGED <<settings, model, predictor, draft, threads, history>>

NextCall ==
    \/ \E input \in CallRequestInputs : create_request(input)
    \/ \E window \in TargetWindows : SavePrediction(1, window, 9)
    \/ \E date \in CallDates, slot \in CallSlots, thr \in CallThresholds,
          cap \in CallCaps, cp_model \in BOOLEAN :
          OptimizeCall(date, slot, thr, cap, cp_model, "OPTIMAL")

SpecCall == Init /\ [][NextCall]_vars

(***************************************************************************)
(* Fairness metric.  The arguments are the stakeholder ids of the requests *)
(* and of the decisions; the float returned is kept as the exact fraction  *)
(* <<numerator, denominator>>.                                             *)
(***************************************************************************)
MaxFairnessRequests == 2
MaxFairnessAllocations == 3

Stakeholders == {"dept_a", "dept_b", "dept_c"}

SeqsUpTo(S, n) == UNION {[1..k -> S] : k \in 0..n}

\* One call of compute_fairness_metric
ComputeFairness(reqs, allocations) ==
    /\ call' = [fn |-> "compute_fairness_metric", requests |-> reqs,
                allocations |-> allocations,
                ret |-> compute_fairness_metric(reqs, allocations)]
    /\ UNCHANGED <<settings, requests, predictions, allocation_logs, forecast_logs,
                   model, predictor, draft, last, threads, history>>

NextFair ==
    \E reqs \in SeqsUpTo(Stakeholders, MaxFairnessRequests),
       allocations \in SeqsUpTo(Stakeholders, MaxFairnessAllocations) :
        ComputeFairness(reqs, allocations)

SpecFair == Init /\ [][NextFair]_vars

(***************************************************************************)
(* validate_allocation_config on its own, over configurations around the   *)
(* boundaries of every field.                                              *)
(***************************************************************************)
ConfigInputs ==
    [idle_probability_threshold : {0 - 1, 0, 10, 11},
     stakeholder_usage_cap : {0, 60, 100, 101},
     solver_max_time_seconds : {0, 10},
     solver_random_seed : {0 - 1, 0, 42},
     objective_scale : {0, 1000},
     cp_sat_workers : {0, 2}]

\* One call of validate_allocation_config
ValidateConfig(config) ==
    /\ call' = [fn |-> "validate_allocation_config", config |-> config,
                ret |-> validate_allocation_config(config)]
    /\ UNCHANGED <<settings, requests, predictions, allocation_logs, forecast_logs,
                   model, predictor, draft, last, threads, history>>

NextConfig == \E config \in ConfigInputs : ValidateConfig(config)

SpecConfig == Init /\ [][NextConfig]_vars

(***************************************************************************)
(* The Predictor under concurrent callers.  train_model, predict and       *)
(* get_model_metadata run inside `with self._model_lock`; a thread is      *)
(* between two statements of one of them, and the statements of different  *)
(* threads interleave as the lock allows.                                  *)
(***************************************************************************)
MaxTrainings == 2

\* settings.prediction_min_training_rows
prediction_min_training_rows == 2

\* What get_booking_history_for_training returns to one call: the number of
\* rows, how many of them carry a parseable date, and the number of distinct
\* labels among them.
TrainingRecordInputs ==
    {[rows |-> 0, parseable |-> 0, classes |-> 0],
     [rows |-> 1, parseable |-> 1, classes |-> 1],
     [rows |-> 2, parseable |-> 0, classes |-> 1],
     [rows |-> 2, parseable |-> 2, classes |-> 1],
     [rows |-> 3, parseable |-> 3, classes |-> 2]}

PredictRooms == {1}

\* `with self._model_lock` can be entered by thread t (RLock: free, or held
\* by t itself).
lock_ignored(t) == TRUE

lock_available(t) == predictor.lock \in {0, t}

InCall(t, pc, local) == [pc |-> pc, draft |-> <<>>, epoch |-> 0, local |-> local]

\* A train_model that drops the in-memory metadata before it has decided
\* whether it can train.
TrainLoadResetting(t, records) ==
    /\ threads[t].pc = "idle"
    /\ lock_available(t)
    /\ predictor.trainings < MaxTrainings
    /\ IF records.rows < prediction_min_training_rows \/ records.parseable = 0
       THEN /\ predictor' = [predictor EXCEPT !.training_rows = records.rows,
                                              !.trainings = @ + 1,
                                              !.model_metadata = NoMetadata]
            /\ threads' = threads
            /\ last' = Plain("train_model", "ModelNotReadyError")
       ELSE /\ predictor' = [predictor EXCEPT !.training_rows = records.rows,
                                              !.trainings = @ + 1,
                                              !.lock = t]
            /\ threads' = [threads EXCEPT ![t] =
                  InCall(t, "train_install",
                         [model_name |-> IF records.classes >= 2
                                         THEN "logistic_regression"
                                         ELSE "dummy_most_frequent"])]
            /\ last' = Plain("train_model", "fit")
    /\ UNCHANGED <<settings, requests, predictions, allocation_logs, forecast_logs,
                   model, draft, history, call>>

\* train_model up to the refusals: enter the lock, load the records, set
\* _training_rows, and raise ModelNotReadyError (leaving the lock) or go on
\* to fit the pipeline.
TrainLoad(t, records) ==
    /\ threads[t].pc = "idle"
    /\ lock_available(t)
    /\ predictor.trainings < MaxTrainings
    /\ IF records.rows < prediction_min_training_rows \/ records.parseable = 0
       THEN /\ predictor' = [predictor EXCEPT !.training_rows = records.rows,
                                              !.trainings = @ + 1]
            /\ threads' = threads
            /\ last' = Plain("train_model", "ModelNotReadyError")
       ELSE /\ predictor' = [predictor EXCEPT !.training_rows = records.rows,
                                              !.trainings = @ + 1,
                                              !.lock = t]
            /\ threads' = [threads EXCEPT ![t] =
                  InCall(t, "train_install",
                         [model_name |-> IF records.classes >= 2
                                         THEN "logistic_regression"
                                         ELSE "dummy_most_frequent"])]
            /\ last' = Plain("train_model", "fit")
    /\ UNCHANGED <<settings, requests, predictions, allocation_logs, forecast_logs,
                   model, draft, history, call>>

\* self._model = pipeline
TrainInstall(t) ==
    /\ threads[t].pc = "train_install"
    /\ model' = "trained"
    /\ predictor' = [predictor EXCEPT !.pipeline = predictor.trainings]
    /\ threads' = [threads EXCEPT ![t].pc = "train_stamp"]
    /\ last' = Plain("train_model", "installed")
    /\ UNCHANGED <<settings, requests, predictions, allocation_logs, forecast_logs,
                   draft, history, call>>

\* self._trained_at = ...; self._model_metadata = ModelMetadata(...)
TrainStamp(t) ==
    /\ threads[t].pc = "train_stamp"
    /\ predictor' = [predictor EXCEPT
          !.trained_at = predictor.trainings,
          !.model_metadata = [model_type |-> threads[t].local.model_name,
                              trained_at |-> predictor.trainings,
                              training_rows |-> predictor.training_rows]]
    /\ threads' = [threads EXCEPT ![t].pc = "train_save"]
    /\ last' = Plain("train_model", "stamped")
    /\ UNCHANGED <<settings, requests, predictions, allocation_logs, forecast_logs,
                   model, draft, history, call>>

\* self._repository.save_model_metadata(...), which may raise, and the end of
\* the with block.
TrainSave(t, fails) ==
    /\ threads[t].pc = "train_save"
    /\ predictor' = [predictor EXCEPT
          !.stored_metadata =
              IF fails THEN @
              ELSE [model_type |-> threads[t].local.model_name,
                    trained_at |-> predictor.trained_at,
                    training_rows |-> 0],
          !.lock = 0]
    /\ threads' = [threads EXCEPT ![t] = IdleThread]
    /\ last' = Plain("train_model", IF fails THEN "StorageError" ELSE "ok")
    /\ UNCHANGED <<settings, requests, predictions, allocation_logs, forecast_logs,
                   model, draft, history, call>>

\* predict up to _get_occupancy_probability: enter the lock, prepare the
\* features, read self._model (ModelNotReadyError if it is None).
PredictRead(t, room, window) ==
    /\ threads[t].pc = "idle"
    /\ lock_available(t)
    /\ Len(predictions) < MaxPredictions
    /\ IF model = NoModel
       THEN /\ threads' = threads
            /\ predictor' = predictor
            /\ last' = Plain("predict", "ModelNotReadyError")
       ELSE /\ threads' = [threads EXCEPT ![t] =
                  InCall(t, "predict_save", [room |-> room, window |-> window])]
            /\ predictor' = [predictor EXCEPT !.lock = t]
            /\ last' = Plain("predict", "read")
    /\ call' = [fn |-> "predict", thread |-> t, model |-> model,
                pipeline |-> predictor.pipeline, trained_at |-> predictor.trained_at,
                model_metadata |-> predictor.model_metadata,
                training |-> {u \in Threads :
                                 threads[u].pc \in {"train_install", "train_stamp",
                                                    "train_save"}}]
    /\ UNCHANGED <<settings, requests, predictions, allocation_logs, forecast_logs,
                   model, draft, history>>

\* predict from save_prediction (persist=True) to the end of the with block
PredictSave(t) ==
    /\ threads[t].pc = "predict_save"
    /\ predictions' = predict(predictions, <<threads[t].local.room>>,
                              threads[t].local.window, TRUE)
    /\ predictor' = [predictor EXCEPT !.lock = 0]
    /\ threads' = [threads EXCEPT ![t] = IdleThread]
    /\ last' = Plain("predict", "ok")
    /\ UNCHANGED <<settings, requests, allocation_logs, forecast_logs, model, draft,
                   history, call>>

\* What get_model_metadata returns or raises.
get_model_metadata ==
    IF predictor.model_metadata # NoMetadata
    THEN [outcome |-> "ok", metadata |-> predictor.model_metadata]
    ELSE IF predictor.stored_metadata = NoMetadata
    THEN [outcome |-> "ModelNotReadyError", metadata |-> NoMetadata]
    ELSE [outcome |-> "ok", metadata |-> predictor.stored_metadata]

\* AvailabilityPredictionService.get_model_metadata, one with block
GetModelMetadata(t) ==
    /\ threads[t].pc = "idle"
    /\ lock_available(t)
    /\ call' = [fn |-> "get_model_metadata", thread |-> t, ret |-> get_model_metadata]
    /\ last' = Plain("get_model_metadata", get_model_metadata.outcome)
    /\ UNCHANGED <<settings, requests, predictions, allocation_logs, forecast_logs,
                   model, draft, threads, history, predictor>>

NextPred ==
    \E t \in Threads :
        \/ \E records \in TrainingRecordInputs : TrainLoad(t, records)
        \/ TrainInstall(t)
        \/ TrainStamp(t)
        \/ \E fails \in BOOLEAN : TrainSave(t, fails)
        \/ \E room \in PredictRooms, window \in TargetWindows : PredictRead(t, room, window)
        \/ PredictSave(t)
        \/ GetModelMetadata(t)

SpecPred == Init /\ [][NextPred]_vars

(***************************************************************************)
(* The greedy fallback of the Allocator (optimize_with_fallback without    *)
(* CP-SAT), as the specification describes it: admitted pairs sorted by    *)
(* (score DESC, request_id ASC, room_id ASC), taken greedily.              *)
(***************************************************************************)
GreedyRequestInputs ==
    {<<20, 10, "dept_a", <<2, 2>>>>, <<40, 15, "dept_b", <<2, 2>>>>,
     <<20, 15, "dept_a", <<2, 2>>>>}

GreedyPredictions == [RoomIds -> {0, 5, 9}]

GreedyThresholds == {0, 5}

PendingRequest(input) ==
    [requested_capacity |-> input[1], window |-> input[4],
     priority_weight |-> input[2], stakeholder_id |-> input[3],
     status |-> "PENDING"]

pair_score(p, reqs, prediction_by_room, config) ==
    objective_coefficient(idle_probability_of(prediction_by_room, p[1]),
                          reqs[p[2]].priority_weight, config)

\* The sort key (score DESC, request_id ASC, room_id ASC)
sorts_before(p, o, reqs, prediction_by_room, config) ==
    LET sp == pair_score(p, reqs, prediction_by_room, config)
        so == pair_score(o, reqs, prediction_by_room, config)
    IN  \/ sp > so
        \/ sp = so /\ p[2] < o[2]
        \/ sp = so /\ p[2] = o[2] /\ p[1] < o[1]

RECURSIVE greedy_order(_, _, _, _)
greedy_order(pairs, reqs, prediction_by_room, config) ==
    IF pairs = {} THEN <<>>
    ELSE LET first == CHOOSE p \in pairs :
                         \A o \in pairs \ {p} :
                            sorts_before(p, o, reqs, prediction_by_room, config)
         IN  <<first>> \o greedy_order(pairs \ {first}, reqs, prediction_by_room, config)

\* A pair is taken whatever share its stakeholder reaches.
greedy_accepts_any_share(taken, p, variables, reqs, config) ==
    /\ \A o \in taken : o[1] # p[1] /\ o[2] # p[2]

\* Step 3: neither the room nor the request is used, and the stakeholder cap
\* holds for the tentative set (total_assigned + 1 pairs).
greedy_accepts(taken, p, variables, reqs, config) ==
    /\ \A o \in taken : o[1] # p[1] /\ o[2] # p[2]
    /\ StakeholderCapConstraint(taken \cup {p}, variables, reqs, config)

\* The pairs taken, in the order they were taken.
RECURSIVE greedy_take(_, _, _, _, _)
greedy_take(order, taken, variables, reqs, config) ==
    IF order = <<>> THEN taken
    ELSE greedy_take(Tail(order),
                     IF greedy_accepts(Range(taken), Head(order), variables, reqs, config)
                     THEN Append(taken, Head(order)) ELSE taken,
                     variables, reqs, config)

\* Step 4: the result, in the shape of the solver path.
greedy_fallback(reqs, pending, prediction_by_room, config) ==
    LET variables == build_variables(reqs, pending, prediction_by_room, config)
        order == greedy_order(variables, reqs, prediction_by_room, config)
        taken == greedy_take(order, <<>>, variables, reqs, config)
        allocations ==
            [k \in DOMAIN taken |->
                [request_id |-> taken[k][2],
                 room_id |-> taken[k][1],
                 score |-> pair_score(taken[k], reqs, prediction_by_room, config),
                 stakeholder_id |-> reqs[taken[k][2]].stakeholder_id]]
    IN  [order |-> order,
         result |->
            [allocations |-> allocations,
             objective_value |-> Objective(Range(taken), reqs, prediction_by_room, config),
             unassigned_request_ids |->
                IdsInOrder(pending \ {taken[k][2] : k \in DOMAIN taken}, Len(reqs))]]

\* One run of the fallback on the pending requests of one window.
GreedyCall(inputs, prediction_by_room, thr, cap) ==
    LET reqs == [k \in DOMAIN inputs |-> PendingRequest(inputs[k])]
        config == AllocationConfig(thr, cap)
        ret == greedy_fallback(reqs, DOMAIN reqs, prediction_by_room, config)
    IN  /\ call' = [fn |-> "greedy_fallback", requests |-> reqs,
                    prediction_by_room |-> prediction_by_room, config |-> config,
                    order |-> ret.order, result |-> ret.result]
        /\ UNCHANGED <<settings, requests, predictions, allocation_logs, forecast_logs,
                       model, predictor, draft, last, threads, history>>

NextGreedy ==
    \E inputs \in SeqsUpTo(GreedyRequestInputs, MaxRequests),
       prediction_by_room \in GreedyPredictions,
       thr \in GreedyThresholds, cap \in FlowCapInputs :
       GreedyCall(inputs, prediction_by_room, thr, cap)

SpecGreedy == Init /\ [][NextGreedy]_vars

(***************************************************************************)
(* The draft between preview and approve.  The decisions a preview returned *)
(* to the operator are remembered in call (the draft itself holds only the  *)
(* parameters), while requests, predictions and persisted runs go on.       *)
(***************************************************************************)
\* DashboardWorkflowService.preview_allocation, with its returned decisions
\* remembered.
PreviewShown(window, thr, cap, status) ==
    /\ AllocatorRun("preview", window, thr, cap, preview_persist_outputs, status, 0)
    /\ draft' = <<[window |-> window, idle_probability_threshold |-> thr,
                  stakeholder_usage_cap |-> cap]>>
    /\ call' = [fn |-> "preview_allocation", allocations |-> last'.result.allocations]
    /\ UNCHANGED <<settings, model, threads, history, predictor>>

NextDraft ==
    \/ \E input \in FlowRequestInputs : create_request(input)
    \/ \E room \in RoomIds, window \in TargetWindows : SavePrediction(room, window, 9)
    \/ \E window \in TargetWindows : PreviewShown(window, NoneV, 100, "OPTIMAL")
    \/ \E window \in TargetWindows : optimize_allocation(window, NoneV, 100, "OPTIMAL", 0)
    \/ approve_latest_allocation("OPTIMAL", 0)

SpecDraft == Init /\ [][NextDraft]_vars

(***************************************************************************)
(* Workflow calls whose Allocator run raises: a preview with a rejected     *)
(* configuration, an approve whose persistence hits a storage error.        *)
(***************************************************************************)
PreviewCapInputs == {0, 50, 100}

AllocatorConfig(thr, cap) ==
    [idle_probability_threshold |-> AllocationConfig(thr, cap).idle_probability_threshold,
     stakeholder_usage_cap |-> AllocationConfig(thr, cap).stakeholder_usage_cap,
     objective_scale |-> AllocationConfig(thr, cap).objective_scale,
     solver_max_time_seconds |-> SolverSettings.solver_max_time_seconds,
     solver_random_seed |-> SolverSettings.solver_random_seed,
     cp_sat_workers |-> SolverSettings.cp_sat_workers]

\* A preview that stashes its parameters before the Allocator has accepted
\* them.
PreviewCallStashingFirst(window, thr, cap, status) ==
    IF validate_allocation_config(AllocatorConfig(thr, cap)) # "ok"
    THEN /\ last' = Last("preview", validate_allocation_config(AllocatorConfig(thr, cap)),
                         window, thr, cap, FALSE, "-", NoResult, <<>>, "-")
         /\ draft' = <<[window |-> window, idle_probability_threshold |-> thr,
                       stakeholder_usage_cap |-> cap]>>
         /\ UNCHANGED <<settings, requests, predictions, allocation_logs, forecast_logs,
                        model, aux>>
    ELSE preview_allocation(window, thr, cap, status)

\* DashboardWorkflowService.preview_allocation with arguments the Allocator
\* may reject: optimize_allocation raises out of the call before the stash.
PreviewCall(window, thr, cap, status) ==
    IF validate_allocation_config(AllocatorConfig(thr, cap)) # "ok"
    THEN /\ last' = Last("preview", validate_allocation_config(AllocatorConfig(thr, cap)),
                         window, thr, cap, FALSE, "-", NoResult, <<>>, "-")
         /\ UNCHANGED <<settings, requests, predictions, allocation_logs, forecast_logs,
                        model, draft, aux>>
    ELSE preview_allocation(window, thr, cap, status)

NextDraftFail ==
    \/ \E input \in FlowRequestInputs : create_request(input)
    \/ \E room \in RoomIds, window \in TargetWindows : SavePrediction(room, window, 9)
    \/ \E window \in TargetWindows, cap \in PreviewCapInputs :
          PreviewCall(window, NoneV, cap, "OPTIMAL")
    \/ \E fail_at \in FlowFailurePoints : approve_latest_allocation("OPTIMAL", fail_at)

SpecDraftFail == Init /\ [][NextDraftFail]_vars

(***************************************************************************)
(* Properties.                                                             *)
(***************************************************************************)
AllocatorOps == {"optimize", "preview", "approve"}

ReturnedResult == last.op \in AllocatorOps /\ last.outcome = "ok"

RequestIdsOf(allocations) == {allocations[k].request_id : k \in DOMAIN allocations}

RoomIdsOf(allocations) == {allocations[k].room_id : k \in DOMAIN allocations}

\* ceil(n / d) for d > 0
Ceil(n, d) == (n + d - 1) \div d

EffectiveThreshold(l) ==
    IF l.idle_probability_threshold # NoneV
    THEN l.idle_probability_threshold
    ELSE settings.allocation_idle_probability_threshold

EffectiveCap(l) ==
    IF l.stakeholder_usage_cap # NoneV
    THEN l.stakeholder_usage_cap
    ELSE settings.allocation_stakeholder_usage_cap

\* C1: in the result of every Allocator solve, each request_id appears in at
\* most one decision and each room_id appears in at most one decision.
C1_OneDecisionPerRequestAndRoom ==
    ReturnedResult =>
        LET a == last.result.allocations
        IN  \A i, j \in DOMAIN a :
                i # j => a[i].request_id # a[j].request_id /\ a[i].room_id # a[j].room_id

\* C1 witness: a solve returned two decisions.
C1_Witness ==
    /\ last.op = "optimize" /\ last.outcome = "ok"
    /\ Len(last.result.allocations) = 2

\* C2: every returned decision pairs a room that is large enough for the
\* request and whose latest idle probability for the window is strictly above
\* the threshold; when no room is above the threshold the result is empty,
\* its objective is 0 and every pending request of the window is unassigned.
C2_PruningRespected ==
    [][last'.op = "optimize" /\ last'.outcome = "ok" =>
        LET result == last'.result
            a == result.allocations
            idle == list_idle_predictions(predictions, last'.window)
            threshold == EffectiveThreshold(last')
            pending == list_pending_requests(requests, last'.window)
        IN  /\ \A k \in DOMAIN a :
                 /\ RoomCapacity[a[k].room_id] >= requests[a[k].request_id].requested_capacity
                 /\ a[k].room_id \in DOMAIN idle
                 /\ idle[a[k].room_id] > threshold
            /\ (\A r \in RoomIds : r \in DOMAIN idle => idle[r] <= threshold) =>
                 /\ a = <<>>
                 /\ result.objective_value = 0
                 /\ Range(result.unassigned_request_ids) = pending
    ]_vars

\* C2 witness: one request got a room while another stayed unassigned although
\* a free room sitting exactly at the threshold was large enough for it.
C2_Witness ==
    /\ last.op = "optimize" /\ last.outcome = "ok"
    /\ Len(last.result.allocations) = 1
    /\ \E q \in Range(last.result.unassigned_request_ids) :
         \E r \in RoomIds \ RoomIdsOf(last.result.allocations) :
            LET idle == list_idle_predictions(predictions, last.window)
            IN  /\ r \in DOMAIN idle
                /\ idle[r] = EffectiveThreshold(last)
                /\ RoomCapacity[r] >= requests[q].requested_capacity

\* C3: in every returned result, the decisions of one stakeholder number at
\* most ceil(stakeholder_usage_cap * total number of decisions).
C3_StakeholderCapHolds ==
    ReturnedResult =>
        LET a == last.result.allocations
            count(s) == Cardinality({k \in DOMAIN a : a[k].stakeholder_id = s})
        IN  \A s \in {a[k].stakeholder_id : k \in DOMAIN a} :
                count(s) <= Ceil(EffectiveCap(last) * Len(a), 100)

\* C3 witness: under a cap below 1 two stakeholders got one room each.
C3_Witness ==
    /\ last.op = "optimize" /\ last.outcome = "ok"
    /\ EffectiveCap(last) < 100
    /\ Len(last.result.allocations) = 2
    /\ last.result.allocations[1].stakeholder_id # last.result.allocations[2].stakeholder_id

\* C4: when the pending requests of the window are exactly two requests of one
\* stakeholder, more than one room is admissible for them and the cap is 0.5,
\* optimize_allocation (solved to optimality) returns exactly one decision and
\* exactly one unassigned request id.
C4_SingleStakeholderStillAllocates ==
    [][(LET pending == list_pending_requests(requests, last'.window)
            idle == list_idle_predictions(predictions, last'.window)
            admissible ==
                {r \in RoomIds :
                    /\ r \in DOMAIN idle
                    /\ idle[r] > EffectiveThreshold(last')
                    /\ \A q \in pending : RoomCapacity[r] >= requests[q].requested_capacity}
        IN  /\ last'.op = "optimize" /\ last'.outcome = "ok"
            /\ last'.status = "OPTIMAL"
            /\ last'.stakeholder_usage_cap = 50
            /\ Cardinality(pending) = 2
            /\ Cardinality({requests[q].stakeholder_id : q \in pending}) = 1
            /\ Cardinality(admissible) > 1)
        => /\ Len(last'.result.allocations) = 1
           /\ Len(last'.result.unassigned_request_ids) = 1
    ]_vars

StatusesUnchanged ==
    /\ DOMAIN requests' = DOMAIN requests
    /\ \A q \in DOMAIN requests : requests'[q].status = requests[q].status

LogRowsOf(allocations) ==
    [k \in DOMAIN allocations |->
        [request_id |-> allocations[k].request_id,
         room_id |-> allocations[k].room_id,
         allocation_score |-> allocations[k].score]]

\* The requests a step moved from PENDING to ALLOCATED.
NewlyAllocated ==
    {q \in DOMAIN requests :
        requests[q].status = "PENDING" /\ requests'[q].status = "ALLOCATED"}

\* C5: a run_simulation call, with valid or invalid temporary constraints,
\* leaves the row counts of Predictions, AllocationLogs and DemandForecastLogs
\* and the status of every request as they were.
C5_SimulationLeavesStore ==
    [][last'.op = "simulate" =>
        /\ Len(predictions') = Len(predictions)
        /\ Len(allocation_logs') = Len(allocation_logs)
        /\ Len(forecast_logs') = Len(forecast_logs)
        /\ StatusesUnchanged
    ]_vars

\* C5 witness: a simulation ran with a trained predictor over a store that has
\* allocation logs and a pending request whose window lacks predictions.
C5_Witness ==
    /\ last.op = "simulate"
    /\ model # NoModel
    /\ allocation_logs # <<>>
    /\ \E q \in list_all_pending_requests(requests) :
          missing_room_ids(predictions, requests[q].window) # <<>>

C7_PersistedRunWrites ==
    [][last'.op = "optimize" /\ last'.outcome = "ok" =>
        LET a == last'.result.allocations
            pending == list_pending_requests(requests, last'.window)
        IN  /\ allocation_logs' = allocation_logs \o LogRowsOf(a)
            /\ \A q \in RequestIdsOf(a) : requests'[q].status = "ALLOCATED"
            /\ \A q \in pending \ RequestIdsOf(a) : requests'[q].status = "PENDING"
            /\ \A q \in Range(last'.result.unassigned_request_ids) :
                  requests'[q].status = "PENDING"
    ]_vars

\* C7 witness: a persisted run decided one request and left another unassigned.
C7_Witness ==
    /\ last.op = "optimize" /\ last.outcome = "ok" /\ last.persist_outputs
    /\ last.result.allocations # <<>>
    /\ last.result.unassigned_request_ids # <<>>
    /\ \A q \in Range(last.result.unassigned_request_ids) : requests[q].status = "PENDING"
    /\ \A q \in RequestIdsOf(last.result.allocations) : requests[q].status = "ALLOCATED"

\* C8: persistence of one Allocator invocation is all-or-nothing: when one of
\* its three writes fails, no forecast row, no allocation log and no status
\* update of that invocation is visible in the store.
C8_PersistenceAllOrNothing ==
    [][last'.op = "optimize" /\ last'.outcome = "StorageError" =>
        /\ requests' = requests
        /\ allocation_logs' = allocation_logs
        /\ forecast_logs' = forecast_logs
    ]_vars

\* C9: approve succeeds only with a draft stashed by a preview since the last
\* successful approve: without a draft it fails with AllocationDraftNotFound
\* and writes nothing, a successful approve clears the draft, only a completed
\* preview stashes one, and an approve right after a successful approve fails
\* with AllocationDraftNotFound.
C9_ApproveNeedsFreshPreview ==
    [][/\ (last'.op = "approve" /\ draft = <<>>) =>
            /\ last'.outcome = "AllocationDraftNotFoundError"
            /\ UNCHANGED <<requests, predictions, allocation_logs, forecast_logs, draft>>
       /\ (last'.op = "approve" /\ last'.outcome = "ok") =>
            /\ draft # <<>>
            /\ draft' = <<>>
       /\ (draft = <<>> /\ draft' # <<>>) =>
            /\ last'.op = "preview" /\ last'.outcome = "ok"
       /\ (last.op = "approve" /\ last.outcome = "ok" /\ last'.op = "approve") =>
            /\ last'.outcome = "AllocationDraftNotFoundError"
    ]_vars

\* C9 witness: an approve failed for want of a draft after an earlier approve
\* had persisted decisions and consumed the draft.
C9_Witness ==
    /\ last.op = "approve"
    /\ last.outcome = "AllocationDraftNotFoundError"
    /\ draft = <<>>
    /\ allocation_logs # <<>>

\* C10 as stated: preview immediately followed by approve yields
\* approved_allocations_count equal to the length of the preview's allocations
\* list, the store gains exactly that many AllocationLogs rows and exactly
\* the requests the preview decided become ALLOCATED.
C10_ApproveCountIsPreviewLength ==
    [][(/\ last.op = "preview" /\ last.outcome = "ok"
        /\ last'.op = "approve" /\ last'.outcome = "ok") =>
        /\ approved_allocations_count(last'.result) = Len(last.rows)
        /\ Len(allocation_logs') = Len(allocation_logs) + Len(last.rows)
        /\ NewlyAllocated = RequestIdsOf(last.result.allocations)
    ]_vars

\* C10 amended: preview immediately followed by a successful approve yields
\* approved_allocations_count equal to the number of decisions of approve's
\* own Allocator run, which never exceeds the length of the preview's
\* allocations list (one entry per pending request, matched or UNASSIGNED);
\* the store gains exactly approved_allocations_count AllocationLogs rows, one
\* per decision of that run, and exactly the requests it decided become
\* ALLOCATED.
C10_ApproveCountIsOwnDecisions ==
    [][(/\ last.op = "preview" /\ last.outcome = "ok"
        /\ last'.op = "approve" /\ last'.outcome = "ok") =>
        /\ approved_allocations_count(last'.result) <= Len(last.rows)
        /\ Len(allocation_logs') =
              Len(allocation_logs) + approved_allocations_count(last'.result)
        /\ allocation_logs' = allocation_logs \o LogRowsOf(last'.result.allocations)
        /\ NewlyAllocated = RequestIdsOf(last'.result.allocations)
    ]_vars

\* C10 witness: an approve right after a preview persisted a decision while
\* another request of the window stayed unassigned.
C10_Witness ==
    /\ last.op = "approve" /\ last.outcome = "ok"
    /\ last.previous = "preview"
    /\ Len(last.result.allocations) = 1
    /\ last.result.unassigned_request_ids # <<>>
    /\ allocation_logs = LogRowsOf(last.result.allocations)

\* C11: concurrent preview and approve calls are serialised by the workflow
\* lock, so no stashed draft is ever read and persisted by two approve calls.
C11_DraftApprovedAtMostOnce == history.repeated = {}

ValidCallArguments(c, l) ==
    /\ c.date = <<2026, 2, 24>>
    /\ c.slot = <<11, 13>>
    /\ l.idle_probability_threshold \in {NoneV, 10}
    /\ l.stakeholder_usage_cap = 100

\* C13: with CP-SAT unavailable, optimize_allocation on valid arguments does
\* not fail (it answers through the deterministic fallback).
C13_NoSolverStillAnswers ==
    (/\ call.fn = "optimize_allocation"
     /\ last.op = "optimize"
     /\ ~call.cp_model
     /\ ValidCallArguments(call, last))
    => last.outcome = "ok"

\* The arguments the claim calls invalid: a date or slot text other than the
\* well-formed ones of the input domain, a threshold outside [0, 1], a cap
\* outside (0, 1].
InvalidCallArguments(c, l) ==
    \/ c.date \notin {<<2026, 2, 24>>}
    \/ c.slot \notin {<<11, 13>>}
    \/ /\ l.idle_probability_threshold # NoneV
       /\ (l.idle_probability_threshold < 0 \/ l.idle_probability_threshold > 10)
    \/ /\ l.stakeholder_usage_cap # NoneV
       /\ (l.stakeholder_usage_cap <= 0 \/ l.stakeholder_usage_cap > 100)

\* C16: optimize_allocation called with a malformed date, a malformed or
\* inverted slot, or an out-of-range threshold or cap fails with
\* AllocationValidationError and leaves the store unchanged.
C16_InvalidCallRejected ==
    [][(last'.op = "optimize" /\ InvalidCallArguments(call', last')) =>
        /\ last'.outcome = "AllocationValidationError"
        /\ UNCHANGED <<requests, predictions, allocation_logs, forecast_logs>>
    ]_vars

\* C14: when the solver's status is neither OPTIMAL nor FEASIBLE, the solve
\* returns no allocation, objective 0 and every pending request of the window
\* as unassigned, and no request is marked ALLOCATED.
C14_FailedSolveReturnsEmpty ==
    [][(/\ last'.op = "optimize" /\ last'.outcome = "ok"
        /\ last'.status \notin {"OPTIMAL", "FEASIBLE"}) =>
        /\ last'.result.allocations = <<>>
        /\ last'.result.objective_value = 0
        /\ Range(last'.result.unassigned_request_ids)
              = list_pending_requests(requests, last'.window)
        /\ Len(last'.result.unassigned_request_ids)
              = Cardinality(list_pending_requests(requests, last'.window))
        /\ requests' = requests
        /\ allocation_logs' = allocation_logs
    ]_vars

\* C14 witness: a solve without solution left two pending requests unassigned
\* although an admitted room was large enough for one of them.
C14_Witness ==
    /\ last.op = "optimize" /\ last.outcome = "ok"
    /\ last.status = "UNKNOWN"
    /\ Len(last.result.unassigned_request_ids) = 2
    /\ \E r \in RoomIds, q \in Range(last.result.unassigned_request_ids) :
          LET idle == list_idle_predictions(predictions, last.window)
          IN  /\ r \in DOMAIN idle
              /\ idle[r] > EffectiveThreshold(last)
              /\ RoomCapacity[r] >= requests[q].requested_capacity

AllocatedTo(c, s) == Cardinality({k \in DOMAIN c.allocations : c.allocations[k] = s})

EveryStakeholderGetsTheSame(c) ==
    \A s1, s2 \in Range(c.requests) : AllocatedTo(c, s1) = AllocatedTo(c, s2)

\* C15 as stated: the fairness metric lies in [0, 1] and equals 1 if and only
\* if every stakeholder of the request set receives the same number of
\* allocations, the common number zero included.
C15_FairnessOneIffEqualShares ==
    call.fn = "compute_fairness_metric" =>
        /\ 0 <= call.ret[1] /\ call.ret[1] <= call.ret[2] /\ call.ret[2] > 0
        /\ (call.ret[1] = call.ret[2]) <=> EveryStakeholderGetsTheSame(call)

\* C15 amended: the fairness metric lies in [0, 1]; it is 0 when no decision
\* belongs to a stakeholder of the request set (so also when there is no
\* decision at all); otherwise it equals 1 if and only if every stakeholder
\* of the request set receives the same number of allocations.
C15_FairnessOneIffEqualPositiveShares ==
    call.fn = "compute_fairness_metric" =>
        /\ 0 <= call.ret[1] /\ call.ret[1] <= call.ret[2] /\ call.ret[2] > 0
        /\ IF \A s \in Range(call.requests) : AllocatedTo(call, s) = 0
           THEN call.ret[1] = 0
           ELSE (call.ret[1] = call.ret[2]) <=> EveryStakeholderGetsTheSame(call)

\* C15 witness: two stakeholders with requests, three decisions shared
\* unequally, and a metric strictly between 0 and 1.
C15_Witness ==
    /\ call.fn = "compute_fairness_metric"
    /\ Cardinality(Range(call.requests)) = 2
    /\ Len(call.allocations) = 3
    /\ \A s \in Range(call.requests) : AllocatedTo(call, s) > 0
    /\ 0 < call.ret[1] /\ call.ret[1] < call.ret[2]

\* C17: validate_allocation_config accepts a configuration if and only if the
\* threshold is in [0, 1], the cap in (0, 1], solver_max_time_seconds > 0,
\* solver_random_seed >= 0, objective_scale > 0 and cp_sat_workers > 0.
C17_ConfigAcceptedIffInRange ==
    call.fn = "validate_allocation_config" =>
        ((call.ret = "ok") <=>
            /\ 0 <= call.config.idle_probability_threshold
            /\ call.config.idle_probability_threshold <= 10
            /\ 0 < call.config.stakeholder_usage_cap
            /\ call.config.stakeholder_usage_cap <= 100
            /\ call.config.solver_max_time_seconds > 0
            /\ call.config.solver_random_seed >= 0
            /\ call.config.objective_scale > 0
            /\ call.config.cp_sat_workers > 0)

\* The constraints the claim calls valid, against the pending requests.
ValidTemporaryConstraints(c, reqs) ==
    /\ c.idle_threshold = NoneV \/ (0 <= c.idle_threshold /\ c.idle_threshold <= 10)
    /\ c.stakeholder_cap = NoneV \/ (0 < c.stakeholder_cap /\ c.stakeholder_cap <= 100)
    /\ \A room_id \in DOMAIN c.capacity_override :
          room_id \in RoomIds /\ c.capacity_override[room_id] > 0
    /\ \A s \in DOMAIN c.priority_adjustment :
          /\ \E q \in DOMAIN reqs : reqs[q].status = "PENDING" /\ reqs[q].stakeholder_id = s
          /\ c.priority_adjustment[s] > 0

PredictionRowsOf(preds, room, window) ==
    {i \in DOMAIN preds : preds[i].room_id = room /\ preds[i].window = window}

\* C19: after every step, list_idle_predictions for a window has an entry
\* for exactly the rooms with a saved prediction for that window, and the
\* entry is the value of the room's most recently saved row; every step
\* leaves the rows already in Predictions in place and unaltered.
C19_LatestPredictionWins ==
    [][/\ Len(predictions') >= Len(predictions)
       /\ SubSeq(predictions', 1, Len(predictions)) = predictions
       /\ \A window \in {predictions'[i].window : i \in DOMAIN predictions'} :
             LET listed == list_idle_predictions(predictions', window)
             IN  \A room \in RoomIds :
                    LET rows == PredictionRowsOf(predictions', room, window)
                    IN  IF rows = {}
                        THEN room \notin DOMAIN listed
                        ELSE /\ room \in DOMAIN listed
                             /\ \E i \in rows :
                                   /\ \A j \in rows : ~(j > i)
                                   /\ listed[room] = predictions'[i].idle_probability
    ]_vars

\* C19 witness: a room has two saved predictions of different value for one
\* window, and the listing carries the later one.
C19_Witness ==
    /\ last.op = "save_prediction"
    /\ Len(predictions) = 2
    /\ predictions[1].room_id = predictions[2].room_id
    /\ predictions[1].window = predictions[2].window
    /\ predictions[1].idle_probability # predictions[2].idle_probability
    /\ list_idle_predictions(predictions, predictions[2].window)[predictions[2].room_id]
          = predictions[2].idle_probability

\* C20: a request enters the store as PENDING; a step that turns requests
\* ALLOCATED is a successful Allocator run with persisted outputs whose
\* decisions name each of them and whose log rows are appended; no step
\* turns an ALLOCATED request back to PENDING.
C20_RequestLifecycle ==
    [][/\ \A q \in DOMAIN requests' \ DOMAIN requests : requests'[q].status = "PENDING"
       /\ \A q \in DOMAIN requests :
             requests[q].status = "ALLOCATED" => requests'[q].status = "ALLOCATED"
       /\ NewlyAllocated # {} =>
             /\ last'.op \in {"approve", "optimize"}
             /\ last'.outcome = "ok"
             /\ last'.persist_outputs
             /\ NewlyAllocated \subseteq RequestIdsOf(last'.result.allocations)
             /\ allocation_logs' = allocation_logs \o LogRowsOf(last'.result.allocations)
    ]_vars

\* C20 witness: an approval has turned one request ALLOCATED, named by a
\* decision of the approved run, while another request stays PENDING.
C20_Witness ==
    /\ last.op = "approve"
    /\ last.outcome = "ok"
    /\ \E q \in DOMAIN requests :
          /\ requests[q].status = "ALLOCATED"
          /\ q \in RequestIdsOf(last.result.allocations)
    /\ \E q \in DOMAIN requests : requests[q].status = "PENDING"

TrainingPcs == {"train_install", "train_stamp", "train_save"}

\* C21: no thread is inside predict while another is between the start and
\* the completion of train_model, and the model a predict reads is one whose
\* pipeline, training stamp and metadata all come from the same training.
C21_TrainingExcludesInference ==
    /\ \A t, u \in Threads :
          threads[t].pc = "predict_save" => threads[u].pc \notin TrainingPcs
    /\ (call.fn = "predict" /\ call.model # NoModel) =>
          /\ call.training = {}
          /\ call.pipeline > 0
          /\ call.trained_at = call.pipeline
          /\ call.model_metadata # NoMetadata
          /\ call.model_metadata.trained_at = call.pipeline

\* C21 witness: a predict holds the model of the second training, read while
\* no other thread is inside a call on the Predictor.
C21_Witness ==
    /\ call.fn = "predict"
    /\ call.pipeline = 2
    /\ threads[call.thread].pc = "predict_save"
    /\ \A u \in Threads \ {call.thread} : threads[u].pc = "idle"

RECURSIVE SumOfScores(_)
SumOfScores(allocations) ==
    IF allocations = <<>> THEN 0
    ELSE Head(allocations).score + SumOfScores(Tail(allocations))

C25_ApprovePersistsPreview ==
    [][(last'.op = "approve" /\ last'.outcome = "ok" /\ call.fn = "preview_allocation") =>
        last'.result.allocations = call.allocations
    ]_vars

\* C25 (amended): a successful approve runs the Allocator with the window,
\* threshold and cap of the stashed draft on the store as it is at that
\* moment: its decisions are for requests pending in the draft's window then,
\* and exactly these decisions are appended to AllocationLogs.
C25_ApprovePersistsOwnRun ==
    [][(last'.op = "approve" /\ last'.outcome = "ok") =>
        /\ draft # <<>>
        /\ last'.window = draft[1].window
        /\ last'.idle_probability_threshold = draft[1].idle_probability_threshold
        /\ last'.stakeholder_usage_cap = draft[1].stakeholder_usage_cap
        /\ RequestIdsOf(last'.result.allocations)
              \subseteq list_pending_requests(requests, draft[1].window)
        /\ allocation_logs' = allocation_logs \o LogRowsOf(last'.result.allocations)
    ]_vars

\* C25 witness: an approve wrote a decision that differs from what the preview
\* of its draft had returned.
C25_Witness ==
    /\ last.op = "approve"
    /\ last.outcome = "ok"
    /\ call.fn = "preview_allocation"
    /\ call.allocations # <<>>
    /\ last.result.allocations # <<>>
    /\ last.result.allocations # call.allocations

\* C26: no two AllocationLogs rows give one room to two different requests
\* of the same window.
C26_NoRoomDoubleBooked ==
    \A i, j \in DOMAIN allocation_logs :
        (/\ allocation_logs[i].room_id = allocation_logs[j].room_id
         /\ requests[allocation_logs[i].request_id].window
               = requests[allocation_logs[j].request_id].window)
        => allocation_logs[i].request_id = allocation_logs[j].request_id

LogRowsFor(logs, q) == {i \in DOMAIN logs : logs[i].request_id = q}

\* C27: after every step of request creations and persisted runs that
\* complete, each request has at most one AllocationLogs row and has one iff
\* its status is ALLOCATED; a run decides only requests that were PENDING
\* when it started.
C27_OneLogRowPerAllocatedRequest ==
    [][/\ \A i \in DOMAIN allocation_logs' :
             allocation_logs'[i].request_id \in DOMAIN requests'
       /\ \A q \in DOMAIN requests' :
             /\ Cardinality(LogRowsFor(allocation_logs', q)) <= 1
             /\ (LogRowsFor(allocation_logs', q) # {}) <=> (requests'[q].status = "ALLOCATED")
       /\ (last'.op \in AllocatorOps /\ last'.outcome = "ok") =>
             \A q \in RequestIdsOf(last'.result.allocations) :
                requests[q].status = "PENDING"
    ]_vars

\* C27 witness: two persisted runs have each allocated one request; the
\* second run left the request of the first alone.
C27_Witness ==
    /\ last.op = "optimize"
    /\ Len(last.result.allocations) = 1
    /\ Len(allocation_logs) = 2
    /\ allocation_logs[1].request_id # allocation_logs[2].request_id
    /\ allocation_logs[2].request_id = last.result.allocations[1].request_id
    /\ \A q \in DOMAIN requests : requests[q].status = "ALLOCATED"

\* C28: when an approve clears the draft slot, the draft in the slot is the
\* one this approve read and persisted, never a newer one stashed by a
\* preview that completed in between.
C28_ApproveClearsOwnDraft ==
    [][\A t \in Threads :
          (threads[t].pc = "approve_clear" /\ threads'[t].pc = "idle"
              /\ draft # <<>> /\ draft' = <<>>)
          => threads[t].epoch = history.stashed
    ]_vars

\* C29: a preview or an approve that raises leaves the draft slot as it
\* was; the slot changes only when a preview or an approve succeeds; and an
\* approve that follows an approve failed by a storage error runs with the
\* same window, threshold and cap.
C29_FailedCallKeepsDraft ==
    [][/\ (last'.op \in {"preview", "approve"} /\ last'.outcome # "ok") => draft' = draft
       /\ draft' # draft => (last'.op \in {"preview", "approve"} /\ last'.outcome = "ok")
       /\ (last.op = "approve" /\ last.outcome = "StorageError" /\ last'.op = "approve") =>
             /\ last'.outcome # "AllocationDraftNotFoundError"
             /\ last'.window = last.window
             /\ last'.idle_probability_threshold = last.idle_probability_threshold
             /\ last'.stakeholder_usage_cap = last.stakeholder_usage_cap
    ]_vars

\* C29 witness: a preview was rejected while the draft of an earlier preview,
\* with another cap, stays stashed.
C29_Witness ==
    /\ last.op = "preview"
    /\ last.outcome = "ValueError"
    /\ draft # <<>>
    /\ draft[1].stakeholder_usage_cap # last.stakeholder_usage_cap

\* C30: a train_model refused with ModelNotReadyError leaves the installed
\* pipeline, its timestamp, the in-memory and the persisted metadata and the
\* saved predictions as they were, so get_model_metadata answers as before;
\* and while no model is installed predict raises ModelNotReadyError and saves
\* no prediction.
C30_RefusedTrainingKeepsModel ==
    [][/\ (last'.op = "train_model" /\ last'.outcome = "ModelNotReadyError") =>
             /\ model' = model
             /\ predictor'.pipeline = predictor.pipeline
             /\ predictor'.trained_at = predictor.trained_at
             /\ predictor'.model_metadata = predictor.model_metadata
             /\ predictor'.stored_metadata = predictor.stored_metadata
             /\ predictor'.lock = predictor.lock
             /\ get_model_metadata' = get_model_metadata
             /\ predictions' = predictions
       /\ (model = NoModel /\ last'.op = "predict") =>
             /\ last'.outcome = "ModelNotReadyError"
             /\ predictions' = predictions
    ]_vars

\* C30 witness: a training was refused after an earlier one had installed a
\* model; the refused call's row count differs from the installed metadata's.
C30_Witness ==
    /\ last.op = "train_model"
    /\ last.outcome = "ModelNotReadyError"
    /\ model = "trained"
    /\ predictor.model_metadata # NoMetadata
    /\ predictor.training_rows # predictor.model_metadata.training_rows

====
